---- MODULE Spec2Model ----
(***************************************************************************)
(* State-machine model of bin/esquery-cli.js: the yargs command handler,   *)
(* main's for-await loop over the globbed files, queryFile, the code-frame *)
(* slice and dedent.  Strings are sequences of one-character strings.      *)
(***************************************************************************)
EXTENDS Integers, Sequences, FiniteSets, TLC

VARIABLES
    \* the run of main
    pc, argv, files, fileIdx, didError, fileCount, nodes, source, nodeIdx,
    out, err, exitCode, readLog, parseLog,
    \* one code-frame computation (main, lines 119-132) on a drawn file and match
    fpc, fsource, floc, frameSlice, frame,
    \* dedent applied to a drawn block, and again to its own output
    dpc, dlines, dsource, once, twice

mainVars == <<pc, argv, files, fileIdx, didError, fileCount, nodes, source,
              nodeIdx, out, err, exitCode, readLog, parseLog>>
frameVars == <<fpc, fsource, floc, frameSlice, frame>>
dedentVars == <<dpc, dlines, dsource, once, twice>>
vars == <<mainVars, frameVars, dedentVars>>

----------------------------------------------------------------------------
\* Bounds of the model

\* longest enumerated file sequence
MaxFiles == 2
\* most matched nodes esquery returns for one file
MaxNodes == 2
\* most source lines of a file whose code frame is computed
MaxSourceLines == 7
\* most lines of a dedent input block with arbitrary space/tab prefixes
MaxLines == 2
\* longest arbitrary space/tab prefix of a line of such a block
MaxIndent == 2
\* most lines of a dedent input block indented with spaces only
MaxSpaceLines == 3
\* most leading spaces of a line of such a block
MaxSpaces == 6

----------------------------------------------------------------------------
\* Characters and string helpers

SP == " "
TAB == "\t"
LF == "\n"
CR == "\r"

Min(S) == CHOOSE x \in S : \A y \in S : x <= y

\* Array.prototype.join
RECURSIVE join(_, _)
join(ls, sep) ==
    IF ls = <<>> THEN <<>>
    ELSE IF Len(ls) = 1 THEN ls[1]
    ELSE ls[1] \o sep \o join(Tail(ls), sep)

\* String.prototype.split(/\r?\n/): s is the text still to scan, cur the line
\* being collected, acc the lines already closed
RECURSIVE splitFrom(_, _, _)
splitFrom(s, cur, acc) ==
    IF s = <<>> THEN Append(acc, cur)
    ELSE IF Head(s) = LF THEN splitFrom(Tail(s), <<>>, Append(acc, cur))
    ELSE IF Head(s) = CR /\ Len(s) >= 2 /\ s[2] = LF
         THEN splitFrom(Tail(Tail(s)), <<>>, Append(acc, cur))
    ELSE splitFrom(Tail(s), Append(cur, Head(s)), acc)

split(s) == splitFrom(s, <<>>, <<>>)

\* Array.prototype.slice(begin, end) on a 0-indexed array: a negative index
\* counts from the end, both are clamped to [0, length]
sliceIndex(k, len) ==
    IF k < 0 THEN (IF len + k < 0 THEN 0 ELSE len + k)
    ELSE IF k > len THEN len ELSE k

slice(arr, begin, end) ==
    LET b == sliceIndex(begin, Len(arr))
        e == sliceIndex(end, Len(arr))
    IN  IF b >= e THEN <<>> ELSE SubSeq(arr, b + 1, e)

\* String.prototype.repeat
repeat(c, n) == [i \in 1..n |-> c]

----------------------------------------------------------------------------
\* dedent (lines 22-39)

\* line.match(/^(( |\t)*)/)[1].length
RECURSIVE indentation(_)
indentation(line) ==
    IF line # <<>> /\ Head(line) \in {SP, TAB}
    THEN 1 + indentation(Tail(line))
    ELSE 0

\* lines.some((line) => line.startsWith("\t"))
usesTabs(lines) == \E i \in 1..Len(lines) : lines[i] # <<>> /\ lines[i][1] = TAB

\* a slip: the indentation of the first line taken for the minimum
minIndentationFirstLine(lines) == indentation(lines[1])

\* Math.min(...lines.map(...))
minIndentation(lines) == Min({indentation(lines[i]) : i \in 1..Len(lines)})

\* the text new RegExp(`^${unit.repeat(minIndentation)}`) matches
minIndentationRegExp(lines) ==
    repeat(IF usesTabs(lines) THEN TAB ELSE SP, minIndentation(lines))

\* line.replace(regexp, ""): an anchored strip; a line that does not start
\* with the pattern is returned as it is
replacePrefix(line, pattern) ==
    IF Len(line) >= Len(pattern) /\ SubSeq(line, 1, Len(pattern)) = pattern
    THEN SubSeq(line, Len(pattern) + 1, Len(line))
    ELSE line

dedentLines(lines) ==
    [i \in 1..Len(lines) |-> replacePrefix(lines[i], minIndentationRegExp(lines))]

dedent(text) == join(dedentLines(split(text)), <<LF>>)

----------------------------------------------------------------------------
\* The code frame of a match (main, lines 119-132)

linesAbove == 2
linesBelow == 3

Loc(startLine, startColumn, endLine) ==
    [start |-> [line |-> startLine, column |-> startColumn],
     end |-> [line |-> endLine]]

\* sourceLines.slice(loc.start.line - linesAbove, loc.end.line + linesBelow)
frameLines(sourceLines, loc) ==
    slice(sourceLines, loc.start.line - linesAbove, loc.end.line + linesBelow)

\* dedent(sourceLines.slice(...).join("\n"))
codeFrame(text, loc) == dedent(join(frameLines(split(text), loc), <<LF>>))

----------------------------------------------------------------------------
\* Idle values of the variables a specification does not use

MainIdle ==
    /\ pc = "idle"
    /\ argv = [selectorOk |-> TRUE, verbose |-> FALSE, includeCodeFrame |-> FALSE]
    /\ files = <<>>
    /\ fileIdx = 0
    /\ didError = FALSE
    /\ fileCount = 0
    /\ nodes = <<>>
    /\ source = <<>>
    /\ nodeIdx = 0
    /\ out = <<>>
    /\ err = <<>>
    /\ exitCode = 0
    /\ readLog = <<>>
    /\ parseLog = <<>>

FrameIdle ==
    /\ fpc = "idle"
    /\ fsource = <<>>
    /\ floc = Loc(1, 0, 1)
    /\ frameSlice = <<>>
    /\ frame = <<>>

DedentIdle ==
    /\ dpc = "idle"
    /\ dlines = <<>>
    /\ dsource = <<>>
    /\ once = <<>>
    /\ twice = <<>>

----------------------------------------------------------------------------
\* dedent on drawn blocks: SpecDedent

Text == {<<>>, <<"x">>}

\* every space/tab prefix of at most MaxIndent characters
MixedPrefixes == UNION {[1..n -> {SP, TAB}] : n \in 0..MaxIndent}
SpacePrefixes == {repeat(SP, n) : n \in 0..MaxSpaces}

MixedLines == {p \o r : p \in MixedPrefixes, r \in Text}
SpaceLines == {p \o r : p \in SpacePrefixes, r \in Text}

Blocks ==
    UNION {[1..n -> MixedLines] : n \in 1..MaxLines}
    \cup UNION {[1..n -> SpaceLines] : n \in 1..MaxSpaceLines}

LineBreaks == {<<LF>>, <<CR, LF>>}

InitDedent ==
    /\ dpc = "input"
    /\ dlines \in Blocks
    /\ dsource \in {join(dlines, eol) : eol \in LineBreaks}
    /\ once = <<>>
    /\ twice = <<>>
    /\ MainIdle
    /\ FrameIdle

DedentOnce ==
    /\ dpc = "input"
    /\ once' = dedent(dsource)
    /\ dpc' = "once"
    /\ UNCHANGED <<dlines, dsource, twice, mainVars, frameVars>>

DedentTwice ==
    /\ dpc = "once"
    /\ twice' = dedent(once)
    /\ dpc' = "twice"
    /\ UNCHANGED <<dlines, dsource, once, mainVars, frameVars>>

NextDedent == DedentOnce \/ DedentTwice

SpecDedent == InitDedent /\ [][NextDedent]_vars

----------------------------------------------------------------------------
\* One code frame on a drawn file and match: SpecFrame

\* line i of a drawn file: i % 3 tabs, then i letters (so lines differ)
SourceLine(i) == repeat(TAB, i % 3) \o repeat("x", i)

SourceOf(n) == join([i \in 1..n |-> SourceLine(i)], <<LF>>)

InitFrame ==
    /\ fpc = "match"
    /\ \E n \in 1..MaxSourceLines :
         /\ fsource = SourceOf(n)
         /\ floc \in {Loc(s, 0, e) : s \in 1..n, e \in 1..n}
         /\ floc.start.line <= floc.end.line
    /\ frameSlice = <<>>
    /\ frame = <<>>
    /\ MainIdle
    /\ DedentIdle

ComputeFrame ==
    /\ fpc = "match"
    /\ frameSlice' = frameLines(split(fsource), floc)
    /\ frame' = codeFrame(fsource, floc)
    /\ fpc' = "framed"
    /\ UNCHANGED <<fsource, floc, mainVars, dedentVars>>

NextFrame == ComputeFrame

SpecFrame == InitFrame /\ [][NextFrame]_vars

----------------------------------------------------------------------------
\* The run of main: Spec

\* the text of every readable file the enumerator yields in this model
SampleSource == join(<<SourceLine(1), SourceLine(2)>>, <<LF>>)

\* a node's loc is <<>> (undefined) or <<Loc(...)>>
NodeKinds == {[loc |-> <<>>], [loc |-> <<Loc(1, 1, 2)>>]}

NodeLists == UNION {[1..n -> NodeKinds] : n \in 0..MaxNodes}

\* a file on disk: whether fs.readFile succeeds, whether babel parses it, its
\* text and the nodes esquery returns for a well-formed selector
FileInputs ==
    {[readable |-> FALSE, parsable |-> FALSE, source |-> <<>>, nodes |-> <<>>],
     [readable |-> TRUE, parsable |-> FALSE, source |-> SampleSource, nodes |-> <<>>]}
    \cup {[readable |-> TRUE, parsable |-> TRUE, source |-> SampleSource, nodes |-> ns] :
            ns \in NodeLists}

FileLists == UNION {[1..n -> FileInputs] : n \in 0..MaxFiles}

\* one console.log / console.error call
Entry(kind, file, n, line, column, text) ==
    [kind |-> kind, file |-> file, n |-> n, line |-> line, column |-> column,
     text |-> text]

\* a slip: a malformed selector matches nothing instead of throwing
queryFileSelectorUnchecked(f, selectorOk) ==
    IF ~f.readable
    THEN [error |-> "ReadError", nodes |-> <<>>, source |-> <<>>, parsed |-> FALSE]
    ELSE IF ~f.parsable
    THEN [error |-> "SyntaxError", nodes |-> <<>>, source |-> <<>>, parsed |-> TRUE]
    ELSE [error |-> "none", nodes |-> IF selectorOk THEN f.nodes ELSE <<>>,
          source |-> f.source, parsed |-> TRUE]

\* queryFile (lines 47-58): fs.readFile, babel.parseAsync, esquery.query; the
\* selector string is parsed by esquery.query, after the file was read and parsed
queryFile(f, selectorOk) ==
    IF ~f.readable
    THEN [error |-> "ReadError", nodes |-> <<>>, source |-> <<>>, parsed |-> FALSE]
    ELSE IF ~f.parsable
    THEN [error |-> "SyntaxError", nodes |-> <<>>, source |-> <<>>, parsed |-> TRUE]
    ELSE IF ~selectorOk
    THEN [error |-> "SelectorError", nodes |-> <<>>, source |-> <<>>, parsed |-> TRUE]
    ELSE [error |-> "none", nodes |-> f.nodes, source |-> f.source, parsed |-> TRUE]

\* a slip: the flag reflects the last file only
didErrorLastFileOnly(prev, threw) == threw

\* catch (error) { ...; didError = true; } (lines 108-113)
didErrorAfter(prev, threw) == prev \/ threw

\* a slip: the count line is printed for every file in verbose mode
logsMatchCountAlways(verbose, n) == verbose /\ n >= 0

\* argv.verbose && nodes.length > 0 (line 115)
logsMatchCount(verbose, n) == verbose /\ n > 0

\* a slip: the failure flag is never turned into an exit status
exitStatusIgnoresError(failed) == 0

\* if (didError) { process.exit(1); } (lines 150-152); otherwise node exits 0
exitStatus(failed) == IF failed THEN 1 ELSE 0

Init ==
    /\ pc = "argv"
    /\ argv \in [selectorOk : BOOLEAN, verbose : BOOLEAN, includeCodeFrame : BOOLEAN]
    /\ files \in FileLists
    /\ fileIdx = 0
    /\ didError = FALSE
    /\ fileCount = 0
    /\ nodes = <<>>
    /\ source = <<>>
    /\ nodeIdx = 0
    /\ out = <<>>
    /\ err = <<>>
    /\ exitCode = 0
    /\ readLog = <<>>
    /\ parseLog = <<>>
    /\ FrameIdle
    /\ DedentIdle

\* yargs(...).command({ ..., handler: main }) (lines 155-188): selector is a
\* positional of type string; yargs hands any string to main
Handler ==
    /\ pc = "argv"
    /\ pc' = "main"
    /\ UNCHANGED <<argv, files, fileIdx, didError, fileCount, nodes, source,
                   nodeIdx, out, err, exitCode, readLog, parseLog,
                   frameVars, dedentVars>>

\* main up to the loop (lines 65-97)
MainStart ==
    /\ pc = "main"
    /\ didError' = FALSE
    /\ fileCount' = 0
    /\ pc' = "loop"
    /\ UNCHANGED <<argv, files, fileIdx, nodes, source, nodeIdx, out, err,
                   exitCode, readLog, parseLog, frameVars, dedentVars>>

\* the stream yields a file; try/catch around queryFile and the count line
\* (lines 98-117)
NextFile ==
    /\ pc = "loop"
    /\ fileIdx < Len(files)
    /\ LET file == fileIdx + 1
           r == queryFile(files[file], argv.selectorOk)
           threw == r.error # "none"
       IN  /\ fileIdx' = file
           /\ readLog' = Append(readLog, file)
           /\ parseLog' = IF r.parsed THEN Append(parseLog, file) ELSE parseLog
           /\ nodes' = r.nodes
           /\ source' = r.source
           /\ err' = IF threw THEN Append(err, [file |-> file, error |-> r.error])
                     ELSE err
           /\ didError' = didErrorAfter(didError, threw)
           /\ out' = IF logsMatchCount(argv.verbose, Len(r.nodes))
                     THEN Append(out, Entry("matches", file, Len(r.nodes), 0, 0, <<>>))
                     ELSE out
    /\ nodeIdx' = 0
    /\ pc' = "nodes"
    /\ UNCHANGED <<argv, files, fileCount, exitCode, frameVars, dedentVars>>

\* one round of for (const node of nodes) (lines 118-141)
PrintNode ==
    /\ pc = "nodes"
    /\ nodeIdx < Len(nodes)
    /\ LET node == nodes[nodeIdx + 1]
       IN  IF node.loc = <<>>
           THEN out' = Append(out, Entry("unknown", fileIdx, 0, 0, 0, <<>>))
           ELSE LET loc == node.loc[1]
                    text == codeFrame(source, loc)
                IN  out' = Append(out,
                        Entry("location", fileIdx, 0, loc.start.line, loc.start.column,
                              IF argv.includeCodeFrame THEN text ELSE <<>>))
    /\ nodeIdx' = nodeIdx + 1
    /\ UNCHANGED <<pc, argv, files, fileIdx, didError, fileCount, nodes, source,
                   err, exitCode, readLog, parseLog, frameVars, dedentVars>>

\* a slip: a file whose query threw is not counted
EndIterationSkipsFailed ==
    /\ pc = "nodes"
    /\ nodeIdx = Len(nodes)
    /\ fileCount' = IF \E i \in 1..Len(err) : err[i].file = fileIdx
                    THEN fileCount ELSE fileCount + 1
    /\ pc' = "loop"
    /\ UNCHANGED <<argv, files, fileIdx, didError, nodes, source, nodeIdx, out,
                   err, exitCode, readLog, parseLog, frameVars, dedentVars>>

\* fileCount += 1 (line 143)
EndIteration ==
    /\ pc = "nodes"
    /\ nodeIdx = Len(nodes)
    /\ fileCount' = fileCount + 1
    /\ pc' = "loop"
    /\ UNCHANGED <<argv, files, fileIdx, didError, nodes, source, nodeIdx, out,
                   err, exitCode, readLog, parseLog, frameVars, dedentVars>>

\* the stream is exhausted: summary line and exit status (lines 146-152)
Finish ==
    /\ pc = "loop"
    /\ fileIdx = Len(files)
    /\ out' = IF argv.verbose
              THEN Append(out, Entry("summary", 0, fileCount, 0, 0, <<>>))
              ELSE out
    /\ exitCode' = exitStatus(didError)
    /\ pc' = "done"
    /\ UNCHANGED <<argv, files, fileIdx, didError, fileCount, nodes, source,
                   nodeIdx, err, readLog, parseLog, frameVars, dedentVars>>

Next == Handler \/ MainStart \/ NextFile \/ PrintNode \/ EndIteration \/ Finish

Spec == Init /\ [][Next]_vars

----------------------------------------------------------------------------
\* Vocabulary of the properties

Range(s) == {s[i] : i \in 1..Len(s)}

Max2(a, b) == IF a >= b THEN a ELSE b
Min2(a, b) == IF a <= b THEN a ELSE b

\* length of the longest prefix of line made of characters of S
LeadingRun(line, S) ==
    CHOOSE n \in 0..Len(line) :
        /\ \A k \in 1..n : line[k] \in S
        /\ n = Len(line) \/ line[n + 1] \notin S

WithoutFirst(line, n) == SubSeq(line, n + 1, Len(line))

\* querying file i of the enumerated sequence throws
Fails(i) == ~files[i].readable \/ ~files[i].parsable \/ ~argv.selectorOk

\* what was printed to stdout for file i
OutOf(i) == SelectSeq(out, LAMBDA e : e.file = i)

\* the lines a file's matches stand for, taken from the file alone
MatchLines(i) ==
    LET ns == files[i].nodes
        head == IF argv.verbose /\ Len(ns) > 0
                THEN <<Entry("matches", i, Len(ns), 0, 0, <<>>)>> ELSE <<>>
        body == [k \in 1..Len(ns) |->
                    IF ns[k].loc = <<>>
                    THEN Entry("unknown", i, 0, 0, 0, <<>>)
                    ELSE Entry("location", i, 0, ns[k].loc[1].start.line,
                               ns[k].loc[1].start.column,
                               IF argv.includeCodeFrame
                               THEN codeFrame(files[i].source, ns[k].loc[1])
                               ELSE <<>>)]
    IN  IF Fails(i) THEN <<>> ELSE head \o body

Summaries == {k \in 1..Len(out) : out[k].kind = "summary"}

----------------------------------------------------------------------------
\* Properties of the run of main (Spec)

\* C1: when querying a file fails, every later file of the sequence is still
\* queried and its matches are printed exactly as the file alone determines,
\* every file is counted, and the run ends with exit code 1 even if all later
\* files succeed.
C1_ContinuesAfterFailure ==
    pc = "done" =>
        \A i \in 1..Len(files) :
            Fails(i) =>
                /\ exitCode = 1
                /\ fileCount = Len(files)
                /\ \A j \in (i + 1)..Len(files) :
                       /\ j \in Range(readLog)
                       /\ OutOf(j) = MatchLines(j)

C1_Witness ==
    /\ pc = "done"
    /\ Len(files) = 2
    /\ Fails(1)
    /\ ~Fails(2)
    /\ files[2].nodes # <<>>
    /\ OutOf(2) # <<>>
    /\ exitCode = 1

C3_Original ==
    ~argv.selectorOk =>
        /\ pc \notin {"loop", "nodes"}
        /\ readLog = <<>>
        /\ parseLog = <<>>
        /\ fileCount = 0
        /\ err = <<>>

\* C3 as amended: a malformed selector is not detected by the argument layer;
\* it is raised inside each per-file query, after the file was read and
\* parsed, and handled as a per-file error: it is logged, nothing is printed
\* for the file, the file is counted and the run goes on; the run ends with
\* exit code 1 whenever at least one file was enumerated.
C3_SelectorErrorPerFile ==
    ~argv.selectorOk =>
        /\ \A k \in 1..Len(err) :
               /\ err[k].file = k
               /\ files[k].readable /\ files[k].parsable
                      => err[k].error = "SelectorError" /\ k \in Range(parseLog)
        /\ \A k \in 1..Len(out) : out[k].kind = "summary"
        /\ pc = "done" =>
               /\ Len(err) = Len(files)
               /\ readLog = [k \in 1..Len(files) |-> k]
               /\ fileCount = Len(files)
               /\ exitCode = IF Len(files) > 0 THEN 1 ELSE 0

C3_Witness ==
    /\ pc = "done"
    /\ ~argv.selectorOk
    /\ Len(files) = 2
    /\ files[2].readable /\ files[2].parsable
    /\ Len(err) = 2
    /\ err[2].error = "SelectorError"
    /\ fileCount = 2

\* C4: for a file whose query returns no node, or fails, nothing is printed to
\* stdout (no location line, no frame, no count line); a count line is only
\* ever printed with a count greater than zero.
C4_NoOutputWithoutMatch ==
    /\ \A k \in 1..Len(out) : out[k].kind = "matches" => out[k].n > 0
    /\ \A i \in 1..fileIdx : (Fails(i) \/ files[i].nodes = <<>>) => OutOf(i) = <<>>

C4_Witness ==
    /\ argv.verbose
    /\ fileCount >= 1
    /\ ~Fails(1)
    /\ files[1].nodes = <<>>
    /\ OutOf(1) = <<>>

\* C5: in verbose mode the summary line is printed exactly once, as the last
\* line, and carries the number of files the enumerator yielded (failed files
\* included); with no match and no failure it is the only output and the exit
\* code is 0; without verbose mode it is never printed.
C5_Summary ==
    /\ ~argv.verbose => Summaries = {}
    /\ pc # "done" => Summaries = {}
    /\ pc = "done" /\ argv.verbose =>
           /\ Summaries = {Len(out)}
           /\ out[Len(out)].n = Len(files)
           /\ (\A i \in 1..Len(files) : ~Fails(i) /\ files[i].nodes = <<>>)
                  => Len(out) = 1 /\ exitCode = 0

C5_Witness ==
    /\ pc = "done"
    /\ argv.verbose
    /\ Len(files) = 2
    /\ \A i \in 1..Len(files) : ~Fails(i) /\ files[i].nodes = <<>>
    /\ out = <<Entry("summary", 0, 2, 0, 0, <<>>)>>
    /\ exitCode = 0

----------------------------------------------------------------------------
\* Properties of the code frame (SpecFrame)

\* C6 as stated: the frame is the dedented block made of the 2 lines above
\* the start line, the lines of the match and the 3 lines below the end line,
\* clipped at the first and last line of the file.
C6_Original ==
    fpc = "framed" =>
        LET ls == split(fsource)
            first == Max2(1, floc.start.line - 2)
            last == Min2(Len(ls), floc.end.line + 3)
        IN  frame = dedent(join(SubSeq(ls, first, last), <<LF>>))

\* C10 as stated: for a match whose lines lie in the file, the slice handed to
\* dedent is not empty and contains the lines from start line to end line.
C10_Original ==
    fpc = "framed" =>
        LET ls == split(fsource)
            s == floc.start.line
            e == floc.end.line
        IN  /\ frameSlice # <<>>
            /\ \E d \in 0..Len(frameSlice) :
                   /\ d + (e - s + 1) <= Len(frameSlice)
                   /\ SubSeq(frameSlice, d + 1, d + (e - s + 1)) = SubSeq(ls, s, e)

----------------------------------------------------------------------------
\* Properties of dedent (SpecDedent)

SpaceIndented(ls) ==
    \A i \in 1..Len(ls) : LeadingRun(ls[i], {SP}) = LeadingRun(ls[i], {SP, TAB})

\* C7: for a block indented with spaces only, with leading-space counts c_i
\* and m their minimum, dedent returns as many lines, line i with c_i - m
\* leading spaces and its remaining text unchanged.
C7_MinimumExtraction ==
    dpc # "input" /\ SpaceIndented(dlines) =>
        LET c == [i \in 1..Len(dlines) |-> LeadingRun(dlines[i], {SP})]
            m == Min(Range(c))
        IN  once = join([i \in 1..Len(dlines) |->
                            repeat(SP, c[i] - m) \o WithoutFirst(dlines[i], c[i])],
                        <<LF>>)

C7_Witness ==
    /\ dpc = "once"
    /\ dlines = <<repeat(SP, 4) \o <<"x">>, repeat(SP, 2) \o <<"x">>,
                  repeat(SP, 6) \o <<"x">>>>
    /\ once = join(<<repeat(SP, 2) \o <<"x">>, <<"x">>, repeat(SP, 4) \o <<"x">>>>,
                   <<LF>>)

\* C8 as stated: when the output of dedent has uniform leading indentation
\* (every line the same leading whitespace), applying dedent to it again
\* changes nothing.
C8_Original ==
    dpc = "twice" =>
        LET ls == split(once)
            lead(l) == SubSeq(l, 1, LeadingRun(l, {SP, TAB}))
        IN  (\A i, j \in 1..Len(ls) : lead(ls[i]) = lead(ls[j])) => twice = once

\* C9 as stated: with m the minimum over all lines of the length of the
\* leading run of spaces and tabs, every output line is the input line without
\* its first m characters.
C9_Original ==
    dpc # "input" =>
        LET m == Min({LeadingRun(dlines[i], {SP, TAB}) : i \in 1..Len(dlines)})
        IN  once = join([i \in 1..Len(dlines) |-> WithoutFirst(dlines[i], m)], <<LF>>)

====
